---- MODULE Spec2Model ----
(***************************************************************************)
(* Model of the two CSV-to-PUT loaders:                                    *)
(*   variant "A"  PythonAPILoader-CustomResource/CustomResourceLoader.py   *)
(*   variant "B"  PythonAPILoader-VulnerabilityResource/VulnerabilityLoader.py *)
(*                                                                         *)
(* Text is a sequence of one-character strings.  A Python value is a       *)
(* record [t, s, b, l]: t its type tag, s the text of a str or of an int,  *)
(* b the value of a bool, l the items of a list or the [k, v] pairs of a   *)
(* dict (in insertion order).                                              *)
(***************************************************************************)
EXTENDS Integers, Sequences, FiniteSets, TLC

VARIABLES
    variant,      \* "A" or "B": which loader runs
    args,         \* parsed command line of main
    fieldnames,   \* reader.fieldnames: the header row of the file (<<>>: none)
    rows,         \* the data rows of the file, each the list of its cell texts
    csv_headers,  \* csv_headers of main
    i,            \* i of main: number of rows taken from the reader so far
    pc,           \* position of main: "start", "loop", "send", "done", "raised";
                  \* "idle", "built" when build_payload alone is exercised
    url,          \* url of the current iteration
    payload,      \* payload of the current iteration
    resp,         \* resp of main: the last response received
    raised,       \* the exception that ended the run, NoResult if none
    puts,         \* the calls of requests.put made, in order
    out,          \* the per-row blocks and lines printed, in order
    result        \* what build_payload gave when exercised alone

vars == <<variant, args, fieldnames, rows, csv_headers, i, pc, url, payload,
          resp, raised, puts, out, result>>

----------------------------------------------------------------------------
(* Bounds of the model *)

\* longest file, in data rows
MaxRows == 2
\* longest mfaMethods cell, in tokens of MfaTokens
MaxTokens == 3
\* longest mfaEnabled cell drawn from BoolAlphabet, in characters
MaxBoolLen == 2

----------------------------------------------------------------------------
(* Text *)

Whitespace == {" ", "\t", "\n", "\r"}

Digits == {"0", "1", "2", "3", "4", "5", "6", "7", "8", "9"}

UpperCase == <<"A","B","C","D","E","F","G","H","I","J","K","L","M",
               "N","O","P","Q","R","S","T","U","V","W","X","Y","Z">>

LowerCase == <<"a","b","c","d","e","f","g","h","i","j","k","l","m",
               "n","o","p","q","r","s","t","u","v","w","x","y","z">>

LowerChar(c) ==
    IF \E n \in 1..Len(UpperCase) : UpperCase[n] = c
    THEN LowerCase[CHOOSE n \in 1..Len(UpperCase) : UpperCase[n] = c]
    ELSE c

\* str.lower()
Lower(s) == [n \in 1..Len(s) |-> LowerChar(s[n])]

RECURSIVE LStrip(_)
LStrip(s) ==
    IF s # <<>> /\ Head(s) \in Whitespace THEN LStrip(Tail(s)) ELSE s

RECURSIVE RStripSet(_, _)
RStripSet(s, cs) ==
    IF s # <<>> /\ s[Len(s)] \in cs
    THEN RStripSet(SubSeq(s, 1, Len(s) - 1), cs)
    ELSE s

\* str.strip()
Strip(s) == RStripSet(LStrip(s), Whitespace)

\* str.rstrip(c)
RStrip(s, c) == RStripSet(s, {c})

StartsWith(s, c) == s # <<>> /\ s[1] = c

EndsWith(s, c) == s # <<>> /\ s[Len(s)] = c

Contains(s, c) == \E n \in 1..Len(s) : s[n] = c

RECURSIVE SplitFrom(_, _, _, _)
SplitFrom(s, c, n, cur) ==
    IF n > Len(s) THEN <<cur>>
    ELSE IF s[n] = c THEN <<cur>> \o SplitFrom(s, c, n + 1, <<>>)
    ELSE SplitFrom(s, c, n + 1, Append(cur, s[n]))

\* str.split(c)
Split(s, c) == SplitFrom(s, c, 1, <<>>)

RECURSIVE Flatten(_)
Flatten(ss) == IF ss = <<>> THEN <<>> ELSE Head(ss) \o Flatten(Tail(ss))

Min(a, b) == IF a < b THEN a ELSE b

\* s[:n]
Prefix(s, n) == SubSeq(s, 1, Min(n, Len(s)))

----------------------------------------------------------------------------
(* Python values *)

None == [t |-> "none", s |-> <<>>, b |-> FALSE, l |-> <<>>]

Str(s) == [t |-> "str", s |-> s, b |-> FALSE, l |-> <<>>]

Bool(b) == [t |-> "bool", s |-> <<>>, b |-> b, l |-> <<>>]

PyInt(s) == [t |-> "int", s |-> s, b |-> FALSE, l |-> <<>>]

List(l) == [t |-> "list", s |-> <<>>, b |-> FALSE, l |-> l]

Dict(l) == [t |-> "dict", s |-> <<>>, b |-> FALSE, l |-> l]

\* bool(x)
Truthy(x) ==
    CASE x.t = "none" -> FALSE
      [] x.t = "str"  -> x.s # <<>>
      [] x.t = "bool" -> x.b
      [] x.t = "int"  -> \E n \in 1..Len(x.s) : x.s[n] # "0"
      [] OTHER        -> x.l # <<>>

\* a or b
PyOr(a, b) == IF Truthy(a) THEN a ELSE b

\* x in (None, "")
IsNoneOrEmpty(x) == x.t = "none" \/ (x.t = "str" /\ x.s = <<>>)

HasKey(d, k) == \E n \in 1..Len(d) : d[n].k = k

\* dict.get(k)
Get(d, k) ==
    IF HasKey(d, k) THEN d[CHOOSE n \in 1..Len(d) : d[n].k = k].v ELSE None

\* d[k] = v
Put(d, k, v) ==
    IF HasKey(d, k)
    THEN [n \in 1..Len(d) |-> IF d[n].k = k THEN [k |-> k, v |-> v] ELSE d[n]]
    ELSE Append(d, [k |-> k, v |-> v])

RECURSIVE PyRepr(_)
RECURSIVE ReprItems(_)
ReprItems(l) ==
    IF l = <<>> THEN <<>>
    ELSE IF Len(l) = 1 THEN PyRepr(l[1])
    ELSE PyRepr(l[1]) \o <<",", " ">> \o ReprItems(Tail(l))

\* repr(x), for text free of quotes and backslashes
PyRepr(x) ==
    CASE x.t = "none" -> <<"N", "o", "n", "e">>
      [] x.t = "str"  -> <<"'">> \o x.s \o <<"'">>
      [] x.t = "bool" -> IF x.b THEN <<"T", "r", "u", "e">>
                                ELSE <<"F", "a", "l", "s", "e">>
      [] x.t = "int"  -> x.s
      [] OTHER        -> <<"[">> \o ReprItems(x.l) \o <<"]">>

\* str(x), and the text an f-string puts for {x}
PyStr(x) == IF x.t = "str" THEN x.s ELSE PyRepr(x)

----------------------------------------------------------------------------
(* json.loads, exact on text over whitespace, digits, letters and the      *)
(* characters [ ] , " (no escapes, objects, signs, fractions or exponents) *)

JsonFail == [ok |-> FALSE, v |-> None, n |-> 0]

JsonOk(v, n) == [ok |-> TRUE, v |-> v, n |-> n]

RECURSIVE SkipWs(_, _)
SkipWs(s, n) ==
    IF n <= Len(s) /\ s[n] \in Whitespace THEN SkipWs(s, n + 1) ELSE n

RECURSIVE DigitsEnd(_, _)
DigitsEnd(s, n) ==
    IF n <= Len(s) /\ s[n] \in Digits THEN DigitsEnd(s, n + 1) ELSE n

HasWordAt(s, n, w) ==
    /\ n + Len(w) - 1 <= Len(s)
    /\ SubSeq(s, n, n + Len(w) - 1) = w

RECURSIVE ParseValue(_, _)
RECURSIVE ParseElems(_, _, _)
ParseElems(s, n, acc) ==
    LET r == ParseValue(s, n) IN
    IF ~r.ok THEN JsonFail
    ELSE LET m == SkipWs(s, r.n)
             acc2 == Append(acc, r.v)
         IN  IF m > Len(s) THEN JsonFail
             ELSE IF s[m] = "," THEN ParseElems(s, SkipWs(s, m + 1), acc2)
             ELSE IF s[m] = "]" THEN JsonOk(List(acc2), m + 1)
             ELSE JsonFail

ParseValue(s, n) ==
    IF n > Len(s) THEN JsonFail
    ELSE IF s[n] = "\"" THEN
        IF \E m \in (n + 1)..Len(s) : s[m] = "\""
        THEN LET m == CHOOSE m \in (n + 1)..Len(s) :
                        /\ s[m] = "\""
                        /\ \A q \in (n + 1)..(m - 1) : s[q] # "\""
             IN  JsonOk(Str(SubSeq(s, n + 1, m - 1)), m + 1)
        ELSE JsonFail
    ELSE IF s[n] = "0" THEN JsonOk(PyInt(<<"0">>), n + 1)
    ELSE IF s[n] \in Digits THEN
        LET m == DigitsEnd(s, n) IN JsonOk(PyInt(SubSeq(s, n, m - 1)), m)
    ELSE IF HasWordAt(s, n, <<"t", "r", "u", "e">>) THEN JsonOk(Bool(TRUE), n + 4)
    ELSE IF HasWordAt(s, n, <<"f", "a", "l", "s", "e">>) THEN JsonOk(Bool(FALSE), n + 5)
    ELSE IF HasWordAt(s, n, <<"n", "u", "l", "l">>) THEN JsonOk(None, n + 4)
    ELSE IF s[n] = "[" THEN
        LET m == SkipWs(s, n + 1) IN
        IF m <= Len(s) /\ s[m] = "]" THEN JsonOk(List(<<>>), m + 1)
        ELSE ParseElems(s, m, <<>>)
    ELSE JsonFail

\* json.loads(s): ok = FALSE stands for json.JSONDecodeError
JsonLoads(s) ==
    LET r == ParseValue(s, SkipWs(s, 1)) IN
    IF r.ok /\ SkipWs(s, r.n) > Len(s) THEN r ELSE JsonFail

----------------------------------------------------------------------------
(* Column and key names, as text *)

K_resourceId == <<"r", "e", "s", "o", "u", "r", "c", "e", "I", "d">>

K_displayName == <<"d", "i", "s", "p", "l", "a", "y", "N", "a", "m", "e">>

K_uniqueId == <<"u", "n", "i", "q", "u", "e", "I", "d">>

K_externalUrl == <<"e", "x", "t", "e", "r", "n", "a", "l", "U", "r", "l">>

K_customProperties == <<"c", "u", "s", "t", "o", "m", "P", "r", "o", "p", "e", "r", "t", "i", "e", "s">>

K_resources == <<"r", "e", "s", "o", "u", "r", "c", "e", "s">>

K_mfaMethods == <<"m", "f", "a", "M", "e", "t", "h", "o", "d", "s">>

K_mfaEnabled == <<"m", "f", "a", "E", "n", "a", "b", "l", "e", "d">>

K_team == <<"t", "e", "a", "m">>

K_id == <<"i", "d">>

----------------------------------------------------------------------------
(* Results of the functions: a returned value, or a raised exception with  *)
(* the value its message names                                             *)

Ret(v) == [ok |-> TRUE, v |-> v, exc |-> "", about |-> None]

Raise(exc, about) == [ok |-> FALSE, v |-> None, exc |-> exc, about |-> about]

NoResult == [ok |-> FALSE, v |-> None, exc |-> "unset", about |-> None]

RECURSIVE MapStr(_)
\* [str(x) for x in l]
MapStr(l) ==
    IF l = <<>> THEN <<>> ELSE <<Str(PyStr(Head(l)))>> \o MapStr(Tail(l))

RECURSIVE StripParts(_)
\* [part.strip() for part in parts if part.strip()]
StripParts(parts) ==
    IF parts = <<>> THEN <<>>
    ELSE IF Strip(Head(parts)) # <<>>
         THEN <<Str(Strip(Head(parts)))>> \o StripParts(Tail(parts))
         ELSE StripParts(Tail(parts))

----------------------------------------------------------------------------
(* Variant B: the coercions *)

\* coerce_value (the model's JsonLoads knows no objects: generic cells of
\* the model carry no braces)
coerce_value(value) ==
    IF value.t # "str" THEN value
    ELSE LET v == Strip(value.s) IN
         IF Lower(v) = <<"t", "r", "u", "e">> THEN Bool(TRUE)
         ELSE IF Lower(v) = <<"f", "a", "l", "s", "e">> THEN Bool(FALSE)
         ELSE IF /\ \/ StartsWith(v, "[") /\ EndsWith(v, "]")
                    \/ StartsWith(v, "{") /\ EndsWith(v, "}")
                 /\ JsonLoads(v).ok
              THEN JsonLoads(v).v
         ELSE Str(v)

\* faulty variant of TrueWords: "t" is forgotten
TrueWordsWithoutT == {<<"t", "r", "u", "e">>, <<"1">>, <<"y", "e", "s">>, <<"y">>}

TrueWords == {<<"t", "r", "u", "e">>, <<"1">>, <<"y", "e", "s">>, <<"y">>, <<"t">>}

FalseWords == {<<"f", "a", "l", "s", "e">>, <<"0">>, <<"n", "o">>, <<"n">>, <<"f">>}

parse_bool(raw_value) ==
    IF IsNoneOrEmpty(raw_value) THEN Ret(None)
    ELSE IF raw_value.t = "bool" THEN Ret(raw_value)
    ELSE LET v == Lower(Strip(PyStr(raw_value))) IN
         IF v \in TrueWords THEN Ret(Bool(TRUE))
         ELSE IF v \in FalseWords THEN Ret(Bool(FALSE))
         ELSE Raise("ValueError", raw_value)

\* faulty variant of parse_mfa_methods: the comma split is tried before JSON
parse_mfa_methods_comma_first(raw_value) ==
    IF IsNoneOrEmpty(raw_value) THEN None
    ELSE IF raw_value.t # "str" THEN
        IF raw_value.t = "list" THEN List(MapStr(raw_value.l))
        ELSE List(<<Str(PyStr(raw_value))>>)
    ELSE LET v == Strip(raw_value.s) IN
         IF v = <<>> THEN None
         ELSE IF Contains(v, ",") THEN List(StripParts(Split(v, ",")))
         ELSE IF /\ StartsWith(v, "[") /\ EndsWith(v, "]")
                 /\ JsonLoads(v).ok
                 /\ JsonLoads(v).v.t = "list"
              THEN List(MapStr(JsonLoads(v).v.l))
         ELSE List(<<Str(v)>>)

parse_mfa_methods(raw_value) ==
    IF IsNoneOrEmpty(raw_value) THEN None
    ELSE IF raw_value.t # "str" THEN
        IF raw_value.t = "list" THEN List(MapStr(raw_value.l))
        ELSE List(<<Str(PyStr(raw_value))>>)
    ELSE LET v == Strip(raw_value.s) IN
         IF v = <<>> THEN None
         ELSE IF /\ StartsWith(v, "[") /\ EndsWith(v, "]")
                 /\ JsonLoads(v).ok
                 /\ JsonLoads(v).v.t = "list"
              THEN List(MapStr(JsonLoads(v).v.l))
         ELSE IF Contains(v, ",") THEN List(StripParts(Split(v, ",")))
         ELSE List(<<Str(v)>>)

----------------------------------------------------------------------------
(* build_payload *)

Pair(k, v) == [k |-> k, v |-> v]

MissingResourceId == Raise("ValueError", Str(K_resourceId))

\* faulty variant of ResolveResourceId: the column is preferred to the override
ResolveResourceIdColumnFirst(csv_row, resource_id_override) ==
    PyOr(Get(csv_row, K_resourceId), resource_id_override)

\* resource_id_override or csv_row.get("resourceId")
ResolveResourceId(csv_row, resource_id_override) ==
    PyOr(resource_id_override, Get(csv_row, K_resourceId))

ExcludedKeys == {K_resourceId, K_displayName, K_uniqueId, K_externalUrl}

RECURSIVE CustomProperties(_)
\* {k: v for k, v in csv_row.items() if k not in excluded_keys and v not in (None, "")}
CustomProperties(items) ==
    IF items = <<>> THEN <<>>
    ELSE IF Head(items).k \notin ExcludedKeys /\ ~IsNoneOrEmpty(Head(items).v)
         THEN <<Head(items)>> \o CustomProperties(Tail(items))
         ELSE CustomProperties(Tail(items))

RECURSIVE DropNone(_)
\* {k: v for k, v in resource_obj.items() if v is not None}
DropNone(items) ==
    IF items = <<>> THEN <<>>
    ELSE IF Head(items).v.t # "none"
         THEN <<Head(items)>> \o DropNone(Tail(items))
         ELSE DropNone(Tail(items))

\* the rejection of a missing resourceId, variant A
RejectsA(resource_id) == resource_id.t = "none"

\* the rejection of a missing resourceId, variant B
RejectsB(resource_id) == ~Truthy(resource_id)

\* build_payload of CustomResourceLoader.py
build_payload_A(csv_row, headers, resource_id_override) ==
    LET resource_id == ResolveResourceId(csv_row, resource_id_override) IN
    IF RejectsA(resource_id) THEN MissingResourceId
    ELSE LET resource_obj ==
                 <<Pair(K_displayName, Get(csv_row, K_displayName)),
                   Pair(K_uniqueId, Get(csv_row, K_uniqueId)),
                   Pair(K_externalUrl, Get(csv_row, K_externalUrl)),
                   Pair(K_customProperties, Dict(CustomProperties(csv_row)))>>
         IN  Ret(Dict(<<Pair(K_resourceId, resource_id),
                        Pair(K_resources, List(<<Dict(DropNone(resource_obj))>>))>>))

RECURSIVE ResourceObjB(_, _, _)
\* the loop over headers of build_payload, variant B, with resource_obj so far
ResourceObjB(csv_row, headers, resource_obj) ==
    IF headers = <<>> THEN Ret(Dict(resource_obj))
    ELSE LET h == Head(headers)
             raw_value == Get(csv_row, h)
         IN  IF h = K_resourceId THEN ResourceObjB(csv_row, Tail(headers), resource_obj)
             ELSE IF IsNoneOrEmpty(raw_value)
                  THEN ResourceObjB(csv_row, Tail(headers), resource_obj)
             ELSE IF h = K_mfaMethods THEN
                 LET parsed == parse_mfa_methods(raw_value) IN
                 ResourceObjB(csv_row, Tail(headers),
                              IF parsed.t # "none" THEN Put(resource_obj, h, parsed)
                                                   ELSE resource_obj)
             ELSE IF h = K_mfaEnabled THEN
                 LET parsed_bool == parse_bool(raw_value) IN
                 IF ~parsed_bool.ok THEN parsed_bool
                 ELSE ResourceObjB(csv_row, Tail(headers),
                                   IF parsed_bool.v.t # "none"
                                   THEN Put(resource_obj, h, parsed_bool.v)
                                   ELSE resource_obj)
             ELSE ResourceObjB(csv_row, Tail(headers),
                               Put(resource_obj, h, coerce_value(raw_value)))

\* build_payload of VulnerabilityLoader.py
build_payload_B(csv_row, headers, resource_id_override) ==
    LET resource_id == ResolveResourceId(csv_row, resource_id_override) IN
    IF RejectsB(resource_id) THEN MissingResourceId
    ELSE LET r == ResourceObjB(csv_row, headers, <<>>) IN
         IF ~r.ok THEN r
         ELSE Ret(Dict(<<Pair(K_resources, List(<<r.v>>)),
                         Pair(K_resourceId, resource_id)>>))

build_payload(v, csv_row, headers, resource_id_override) ==
    IF v = "A" THEN build_payload_A(csv_row, headers, resource_id_override)
               ELSE build_payload_B(csv_row, headers, resource_id_override)

----------------------------------------------------------------------------
(* main: reading the file *)

\* the row csv.DictReader yields for a line of at most Len(names) cells:
\* the cells missing at the end of a short line are None
DictReaderRow(names, cells) ==
    [n \in 1..Len(names) |->
        Pair(names[n], IF n <= Len(cells) THEN Str(cells[n]) ELSE None)]

\* [h.strip() for h in reader.fieldnames if h is not None]
StripAll(names) == [n \in 1..Len(names) |-> Strip(names[n])]

\* v.strip() if isinstance(v, str) else v
CleanValue(v) == IF v.t = "str" THEN Str(Strip(v.s)) ELSE v

RECURSIVE CleanInto(_, _)
CleanInto(items, acc) ==
    IF items = <<>> THEN acc
    ELSE CleanInto(Tail(items),
                   Put(acc, Strip(Head(items).k), CleanValue(Head(items).v)))

\* cleaned_row of main
Clean(row) == CleanInto(row, <<>>)

----------------------------------------------------------------------------
(* main: the request *)

\* --timeout, default
DefaultTimeout == 10

\* resp.text[:500]
TextLimit == 500

K_ContentType == <<"C", "o", "n", "t", "e", "n", "t", "-", "T", "y", "p", "e">>

K_Authorization == <<"A", "u", "t", "h", "o", "r", "i", "z", "a", "t", "i", "o", "n">>

\* headers of main
Headers(auth_token) ==
    LET base == <<Pair(K_ContentType,
                       Str(<<"a", "p", "p", "l", "i", "c", "a", "t", "i", "o", "n",
                             "/", "j", "s", "o", "n">>))>>
    IN  IF Truthy(auth_token)
        THEN Put(base, K_Authorization,
                 Str(<<"B", "e", "a", "r", "e", "r", " ">> \o auth_token.s))
        ELSE base

\* faulty variant of IdUrl: the base is not trimmed
IdUrlUntrimmed(api_url, id_value) == api_url \o <<"/">> \o PyStr(id_value)

\* f"{args.api_url.rstrip('/')}/{row[args.id_column]}"
IdUrl(api_url, id_value) == RStrip(api_url, "/") \o <<"/">> \o PyStr(id_value)

\* if args.id_column: ... not in row
IdColumnMissing(row) == Truthy(args.id_column) /\ ~HasKey(row, args.id_column.s)

\* url of the iteration over row
RowUrl(row) ==
    IF Truthy(args.id_column) THEN IdUrl(args.api_url, Get(row, args.id_column.s))
    ELSE args.api_url

\* resp of main before any response
NoResponse == [status_code |-> 0, text |-> <<>>]

\* faulty variant of IsSuccess: 300 counts as a success
IsSuccessUpTo300(status) == 200 <= status /\ status <= 300

\* 200 <= resp.status_code < 300
IsSuccess(status) == 200 <= status /\ status < 300

Line(kind, n, u, status, text, p) ==
    [kind |-> kind, row |-> n, url |-> u, status |-> status, text |-> text,
     payload |-> p]

\* the row the reader yields next
NextRecord == DictReaderRow(fieldnames, rows[i + 1])

\* build_payload(cleaned_row, csv_headers, resource_id_override=args.resource_id)
NextBuilt == build_payload(variant, Clean(NextRecord), csv_headers, args.resource_id)

----------------------------------------------------------------------------
(* main: one action per way through the code *)

\* reader.fieldnames is None: the ValueError of main
StartNoHeader ==
    /\ pc = "start"
    /\ fieldnames = <<>>
    /\ pc' = "raised"
    /\ raised' = Raise("ValueError", Str(<<>>))
    /\ UNCHANGED <<variant, args, fieldnames, rows, csv_headers, i, url, payload,
                   resp, puts, out, result>>

\* csv_headers computed, the loop entered
Start ==
    /\ pc = "start"
    /\ fieldnames # <<>>
    /\ csv_headers' = StripAll(fieldnames)
    /\ pc' = "loop"
    /\ UNCHANGED <<variant, args, fieldnames, rows, i, url, payload, resp, raised,
                   puts, out, result>>

\* an iteration that raises KeyError: the id-column is not in the row
RowMissingIdColumn ==
    /\ pc = "loop"
    /\ i < Len(rows)
    /\ IdColumnMissing(NextRecord)
    /\ i' = i + 1
    /\ url' = args.api_url
    /\ pc' = "raised"
    /\ raised' = Raise("KeyError", args.id_column)
    /\ UNCHANGED <<variant, args, fieldnames, rows, csv_headers, payload, resp,
                   puts, out, result>>

\* faulty variant of RowBuildFails: the error is printed and the loop continues
RowBuildFailsContained ==
    /\ pc = "loop"
    /\ i < Len(rows)
    /\ ~IdColumnMissing(NextRecord)
    /\ ~NextBuilt.ok
    /\ i' = i + 1
    /\ url' = RowUrl(NextRecord)
    /\ out' = Append(out, Line("ERROR", i + 1, <<>>, 0, <<>>, None))
    /\ UNCHANGED <<variant, args, fieldnames, rows, csv_headers, pc, payload, resp,
                   raised, puts, result>>

\* an iteration in which build_payload raises
RowBuildFails ==
    /\ pc = "loop"
    /\ i < Len(rows)
    /\ ~IdColumnMissing(NextRecord)
    /\ ~NextBuilt.ok
    /\ i' = i + 1
    /\ url' = RowUrl(NextRecord)
    /\ pc' = "raised"
    /\ raised' = NextBuilt
    /\ UNCHANGED <<variant, args, fieldnames, rows, csv_headers, payload, resp,
                   puts, out, result>>

\* faulty variant of RowDryRun: the continue is missing
RowDryRunFallsThrough ==
    /\ pc = "loop"
    /\ i < Len(rows)
    /\ ~IdColumnMissing(NextRecord)
    /\ NextBuilt.ok
    /\ args.dry_run
    /\ i' = i + 1
    /\ url' = RowUrl(NextRecord)
    /\ payload' = NextBuilt.v
    /\ out' = Append(out, Line("DRY RUN", i + 1, RowUrl(NextRecord), 0, <<>>,
                               NextBuilt.v))
    /\ pc' = "send"
    /\ UNCHANGED <<variant, args, fieldnames, rows, csv_headers, resp, raised,
                   puts, result>>

\* a dry-run iteration: the preview is printed and the loop continues
RowDryRun ==
    /\ pc = "loop"
    /\ i < Len(rows)
    /\ ~IdColumnMissing(NextRecord)
    /\ NextBuilt.ok
    /\ args.dry_run
    /\ i' = i + 1
    /\ url' = RowUrl(NextRecord)
    /\ payload' = NextBuilt.v
    /\ out' = Append(out, Line("DRY RUN", i + 1, RowUrl(NextRecord), 0, <<>>,
                               NextBuilt.v))
    /\ UNCHANGED <<variant, args, fieldnames, rows, csv_headers, pc, resp, raised,
                   puts, result>>

\* an iteration up to the call of send_row_put
RowBuilt ==
    /\ pc = "loop"
    /\ i < Len(rows)
    /\ ~IdColumnMissing(NextRecord)
    /\ NextBuilt.ok
    /\ ~args.dry_run
    /\ i' = i + 1
    /\ url' = RowUrl(NextRecord)
    /\ payload' = NextBuilt.v
    /\ pc' = "send"
    /\ UNCHANGED <<variant, args, fieldnames, rows, csv_headers, resp, raised,
                   puts, out, result>>

\* the call requests.put(url, json=payload, headers=headers, timeout=timeout),
\* logged with the row it is made for and with what came of it: the
\* response, or requests.RequestException raised
PutCall(is_raised, r) ==
    [url |-> url, json |-> payload, headers |-> Headers(args.auth_token),
     timeout |-> args.timeout, row |-> i, raised |-> is_raised, resp |-> r]

\* send_row_put returns the response r: the [OK] or the [FAIL] line
PutResponds(r) ==
    /\ pc = "send"
    /\ puts' = Append(puts, PutCall(FALSE, r))
    /\ resp' = r
    /\ out' = Append(out,
                IF IsSuccess(r.status_code)
                THEN Line("OK", i, url, r.status_code, <<>>, None)
                ELSE Line("FAIL", i, url, r.status_code, Prefix(r.text, TextLimit),
                          None))
    /\ pc' = "loop"
    /\ UNCHANGED <<variant, args, fieldnames, rows, csv_headers, i, url, payload,
                   raised, result>>

\* faulty variant of PutFails: the exception is not caught
PutFailsUncaught ==
    /\ pc = "send"
    /\ puts' = Append(puts, PutCall(TRUE, NoResponse))
    /\ pc' = "raised"
    /\ raised' = Raise("RequestException", Str(url))
    /\ UNCHANGED <<variant, args, fieldnames, rows, csv_headers, i, url, payload,
                   resp, out, result>>

\* send_row_put raises requests.RequestException: the [ERROR] line
PutFails ==
    /\ pc = "send"
    /\ puts' = Append(puts, PutCall(TRUE, NoResponse))
    /\ out' = Append(out, Line("ERROR", i, <<>>, 0, <<>>, None))
    /\ pc' = "loop"
    /\ UNCHANGED <<variant, args, fieldnames, rows, csv_headers, i, url, payload,
                   resp, raised, result>>

\* the reader is exhausted: main returns
Finish ==
    /\ pc = "loop"
    /\ i = Len(rows)
    /\ pc' = "done"
    /\ UNCHANGED <<variant, args, fieldnames, rows, csv_headers, i, url, payload,
                   resp, raised, puts, out, result>>

\* the cleaning of main and build_payload on the first row, alone
CleanAndBuild ==
    /\ pc = "idle"
    /\ csv_headers' = StripAll(fieldnames)
    /\ result' = build_payload(variant, Clean(DictReaderRow(fieldnames, rows[1])),
                               StripAll(fieldnames), args.resource_id)
    /\ pc' = "built"
    /\ UNCHANGED <<variant, args, fieldnames, rows, i, url, payload, resp, raised,
                   puts, out>>

----------------------------------------------------------------------------
(* The files and command lines the model runs on *)

\* headers of the files of the run: in the first the raw name of the id
\* column carries whitespace (csv_headers and cleaned_row strip it, row does
\* not), in the second the resourceId column comes first
RunHeader == <<<<" ">> \o K_id, K_resourceId, K_displayName, K_mfaEnabled>>

RunHeaderPadded ==
    <<<<" ">> \o K_resourceId, K_id, K_displayName \o <<" ">>, K_mfaEnabled>>

\* lines of the files of the run: one with padded cells, a short one whose
\* only cell is blank, one with a mfaEnabled outside the vocabulary
RunLines ==
    { <<<<" ", "4", "2">>, <<" ", "r", "1", " ">>, <<"d">>, <<"Y", "e", "s">>>>,
      <<<<" ">>>>,
      <<<<"4", "4">>, <<"r", "3">>, <<>>, <<"m", "a", "y", "b", "e">>>> }

RECURSIVE SeqsUpTo(_, _)
\* the sequences over S of length at most n
SeqsUpTo(S, n) ==
    IF n = 0 THEN {<<>>}
    ELSE LET shorter == SeqsUpTo(S, n - 1) IN
         shorter \cup {Append(q, x) : q \in {p \in shorter : Len(p) = n - 1}, x \in S}

ApiUrls == {<<"h">>, <<"h", "/">>, <<"h", "/", "/">>}

\* the command lines of the run; without an id-column the base is used as it
\* is, so one base stands for all; the token only shows in the headers of a
\* PUT: it is given on the command lines that give the override
RunArgs ==
    { a \in [api_url : ApiUrls,
             id_column : {None, Str(K_id)},
             resource_id : {None, Str(<<"r", "9">>)},
             auth_token : {None, Str(<<"k">>)},
             timeout : {DefaultTimeout},
             dry_run : BOOLEAN] :
        /\ a.id_column = None => a.api_url = <<"h", "/">>
        /\ a.auth_token = None <=> a.resource_id = None }

\* text of n characters, the last one marked
Body(n) == [k \in 1..n |-> IF k = n THEN "z" ELSE "x"]

\* what the server may answer: the statuses around 200 and 300, bodies
\* shorter and longer than TextLimit
Responses ==
    { [status_code |-> 200, text |-> <<>>],
      [status_code |-> 299, text |-> Body(2)],
      [status_code |-> 300, text |-> Body(TextLimit + 1)],
      [status_code |-> 199, text |-> Body(2)] }

\* headers of the files build_payload is exercised on
BuildHeaders ==
    { <<K_resourceId, K_displayName, K_uniqueId, K_team, K_mfaEnabled, K_mfaMethods>>,
      <<K_displayName, K_team, K_mfaEnabled>>,
      <<<<" ">> \o K_resourceId \o <<" ">>, K_displayName, <<" ">> \o K_team>> }

\* cells a column may hold
Cells(name) ==
    CASE Strip(name) = K_resourceId  -> {<<"r", "1">>, <<" ", "r", "1", " ">>, <<>>, <<" ">>}
      [] Strip(name) = K_displayName -> {<<>>, <<"d">>, <<" ", "d">>}
      [] Strip(name) = K_uniqueId    -> {<<>>, <<"u", "1">>}
      [] Strip(name) = K_team        -> {<<>>, <<"x">>, <<"T", "r", "u", "e">>, <<"[", "1", "]">>}
      [] Strip(name) = K_mfaEnabled  -> {<<>>, <<"Y", "e", "s">>, <<"0">>, <<"m", "a", "y", "b", "e">>}
      [] Strip(name) = K_mfaMethods  -> {<<>>, <<"a", ",", "b">>, <<"[", "\"", "a", "\"", "]">>, <<"a">>}
      [] OTHER                       -> {<<>>}

RECURSIVE LinesOf(_, _)
\* the lines of exactly n cells under the header names
LinesOf(names, n) ==
    IF n = 0 THEN {<<>>}
    ELSE {Append(q, c) : q \in LinesOf(names, n - 1), c \in Cells(names[n])}

\* the lines csv.DictReader yields a row for: one cell at least, and here no
\* more cells than the header has names
Lines(names) == UNION {LinesOf(names, n) : n \in 1..Len(names)}

BuildOverrides == {None, Str(<<>>), Str(<<"r", "9">>)}

\* mfaMethods cells: the texts of at most MaxTokens tokens, bare and bracketed
MfaTokens ==
    { <<"[">>, <<"]">>, <<",">>, <<" ">>, <<"a">>, <<"1">>, <<"\"">>, <<"\"", "a", "\"">>, <<"t", "r", "u", "e">> }

MfaPlain == {Flatten(q) : q \in SeqsUpTo(MfaTokens, MaxTokens)}

MfaTexts == MfaPlain \cup {<<"[">> \o s \o <<"]">> : s \in MfaPlain}

\* mfaEnabled cells: the texts of at most MaxBoolLen characters, and words
BoolAlphabet == {"y", "Y", "n", "N", "t", "T", "f", "F", "1", "0", " ", "e", "s", "o", "x"}

BoolWords ==
    {<<"t", "r", "u", "e">>, <<"T", "r", "u", "e">>, <<"T", "R", "U", "E">>, <<"t", "R", "u", "E">>, <<"f", "a", "l", "s", "e">>, <<"F", "a", "l", "s", "e">>, <<"F", "A", "L", "S", "E">>, <<" ", "t", "r", "u", "e", " ">>, <<"t", "r", "u", "e", "e">>, <<"t", "r", " ", "u", "e">>, <<"m", "a", "y", "b", "e">>, <<"o", "n">>, <<"o", "f", "f">>, <<"2">>, <<"y", "e", "s", "s">>, <<"n", "o", "n", "e">>,
     <<"Y", "e", "s">>, <<" ", "Y", "E", "S", " ">>, <<"N", "o">>}

BoolTexts == SeqsUpTo(BoolAlphabet, MaxBoolLen) \cup BoolWords

----------------------------------------------------------------------------
(* Specifications *)

\* what every run starts from
Fresh ==
    /\ csv_headers = <<>>
    /\ i = 0
    /\ url = <<>>
    /\ payload = None
    /\ resp = NoResponse
    /\ raised = NoResult
    /\ puts = <<>>
    /\ out = <<>>
    /\ result = NoResult

\* main on a file and a command line
Init ==
    /\ variant \in {"A", "B"}
    /\ args \in RunArgs
    /\ \/ fieldnames \in {RunHeader, RunHeaderPadded} /\ rows \in SeqsUpTo(RunLines, MaxRows)
       \/ fieldnames = <<>> /\ rows = <<>>
    /\ pc = "start"
    /\ Fresh

Next ==
    \/ StartNoHeader
    \/ Start
    \/ RowMissingIdColumn
    \/ RowBuildFails
    \/ RowDryRun
    \/ RowBuilt
    \/ \E r \in Responses : PutResponds(r)
    \/ PutFails
    \/ Finish

Spec == Init /\ [][Next]_vars

BuildArgs(overrides) ==
    [api_url : {<<"h">>},
     id_column : {None},
     resource_id : overrides,
     auth_token : {None},
     timeout : {DefaultTimeout},
     dry_run : {FALSE}]

\* build_payload alone, on one row of a file
InitBuild ==
    /\ variant \in {"A", "B"}
    /\ args \in BuildArgs(BuildOverrides)
    /\ fieldnames \in BuildHeaders
    /\ \E line \in Lines(fieldnames) : rows = <<line>>
    /\ pc = "idle"
    /\ Fresh

SpecBuild == InitBuild /\ [][CleanAndBuild]_vars

\* variant B on one row with a mfaMethods cell
InitMfa ==
    /\ variant = "B"
    /\ args \in BuildArgs({None})
    /\ fieldnames = <<K_resourceId, K_mfaMethods>>
    /\ \E text \in MfaTexts : rows = << <<<<"r", "1">>, text>> >>
    /\ pc = "idle"
    /\ Fresh

SpecMfa == InitMfa /\ [][CleanAndBuild]_vars

\* variant B on one row with a mfaEnabled cell
InitBool ==
    /\ variant = "B"
    /\ args \in BuildArgs({None})
    /\ fieldnames = <<K_resourceId, K_mfaEnabled>>
    /\ \E text \in BoolTexts : rows = << <<<<"r", "1">>, text>> >>
    /\ pc = "idle"
    /\ Fresh

SpecBool == InitBool /\ [][CleanAndBuild]_vars

----------------------------------------------------------------------------
(* What the properties speak of *)

HasHeader == fieldnames # <<>>

\* the file has a column of this (stripped) name
HasColumn(name) == \E k \in 1..Len(fieldnames) : Strip(fieldnames[k]) = name

\* the cell of line n in the column of this (stripped) name, as read: None
\* when the line is too short to have it
CellOf(n, name) ==
    LET k == CHOOSE k \in 1..Len(fieldnames) : Strip(fieldnames[k]) = name IN
    IF k <= Len(rows[n]) THEN Str(rows[n][k]) ELSE None

\* a cell that is absent or empty once cleaned
AbsentOrEmpty(c) == c.t = "none" \/ Strip(c.s) = <<>>

PayloadResourceId(p) == Get(p.l, K_resourceId)

\* resources[0] of a payload
Resource0(p) == Get(p.l, K_resources).l[1]

RecordOf(n) == DictReaderRow(fieldnames, rows[n])

BuiltOf(n) ==
    build_payload(variant, Clean(RecordOf(n)), StripAll(fieldnames), args.resource_id)

\* the URL or the payload of line n cannot be constructed
RowFails(n) == IdColumnMissing(RecordOf(n)) \/ ~BuiltOf(n).ok

AllRowsBuild == \A n \in 1..Len(rows) : ~RowFails(n)

\* the first line that cannot be built; Len(rows) + 1 when all can
FirstFailing ==
    IF AllRowsBuild THEN Len(rows) + 1
    ELSE CHOOSE n \in 1..Len(rows) :
            RowFails(n) /\ \A m \in 1..(n - 1) : ~RowFails(m)

\* the lines whose iteration is over
RowsOver == IF pc \in {"send", "raised"} /\ i > 0 THEN i - 1 ELSE i

\* some action of Next is enabled: the disjunction of their guards
CanStep ==
    \/ pc = "start"
    \/ pc = "send"
    \/ pc = "loop" /\ i = Len(rows)
    \/ /\ pc = "loop"
       /\ i < Len(rows)
       /\ \/ IdColumnMissing(NextRecord)
          \/ ~IdColumnMissing(NextRecord) /\ ~NextBuilt.ok
          \/ ~IdColumnMissing(NextRecord) /\ NextBuilt.ok /\ args.dry_run
          \/ ~IdColumnMissing(NextRecord) /\ NextBuilt.ok /\ ~args.dry_run

OverrideGiven == args.resource_id.t = "str" /\ args.resource_id.s # <<>>

----------------------------------------------------------------------------
(* C1 *)

\* C1: whatever the cleaned Record and the override, build_payload raises or
\* returns a payload whose resourceId is present and is a non-empty string
\* (both variants).
C1_ResourceIdNeverEmpty ==
    (pc = "built" /\ result.ok) =>
        /\ HasKey(result.v.l, K_resourceId)
        /\ PayloadResourceId(result.v).t = "str"
        /\ PayloadResourceId(result.v).s # <<>>

----------------------------------------------------------------------------
(* C2 *)

\* C2: variant A: a column whose value is empty or absent is never a key of
\* the built object, neither of resources[0] (displayName, uniqueId,
\* externalUrl) nor of customProperties.
C2_NoKeyForEmptyColumn ==
    (pc = "built" /\ variant = "A" /\ result.ok) =>
        \A k \in 1..Len(fieldnames) :
            LET name == Strip(fieldnames[k]) IN
            AbsentOrEmpty(CellOf(1, name)) =>
                /\ ~HasKey(Resource0(result.v).l, name)
                /\ ~HasKey(Get(Resource0(result.v).l, K_customProperties).l, name)

----------------------------------------------------------------------------
(* C3 *)

\* C3: in a run that is not a dry run and in which every row builds, a
\* transport failure of the PUT for a row is reported for that row and does
\* not stop the run: whatever the failures and statuses, one PUT exactly is
\* attempted for every row, in order, and the run ends normally after the
\* last row.
C3_TransportFailureContained ==
    (~args.dry_run /\ HasHeader /\ AllRowsBuild) =>
        /\ pc # "raised"
        /\ pc # "done" => CanStep
        /\ Len(puts) = RowsOver
        /\ Len(out) = Len(puts)
        /\ \A n \in 1..Len(puts) :
              /\ puts[n].row = n
              /\ out[n].row = n
              /\ puts[n].raised <=> out[n].kind = "ERROR"
        /\ pc = "done" => Len(puts) = Len(rows)

\* a run of two rows at least that ended normally although the first PUT
\* raised
C3_Witness ==
    /\ pc = "done"
    /\ ~args.dry_run
    /\ Len(rows) >= 2
    /\ Len(puts) = Len(rows)
    /\ puts[1].raised
    /\ out[1].kind = "ERROR"

----------------------------------------------------------------------------
(* C4 *)

\* C4: a failure to construct the URL or the payload of row k (id-column not
\* in the row, resourceId missing, in variant B a mfaEnabled outside the
\* vocabulary) ends the run at the first such row: no PUT and no line for
\* row k or a later row, the PUTs of rows 1..k-1 stay made; so too in a
\* dry run.
C4_BuildFailureAborts ==
    (HasHeader /\ ~AllRowsBuild) =>
        LET k == FirstFailing IN
        /\ i <= k
        /\ pc # "done"
        /\ pc # "raised" => CanStep
        /\ \A n \in 1..Len(puts) : puts[n].row < k
        /\ \A n \in 1..Len(out) : out[n].row < k
        /\ pc = "raised" =>
              /\ i = k
              /\ raised.exc \in {"KeyError", "ValueError"}
              /\ Len(out) = k - 1
              /\ ~args.dry_run =>
                    /\ Len(puts) = k - 1
                    /\ \A n \in 1..Len(puts) : puts[n].row = n

\* the run ended by the ValueError of row 2 with the PUT of row 1 made
C4_Witness ==
    /\ pc = "raised"
    /\ raised.exc = "ValueError"
    /\ i = 2
    /\ Len(puts) = 1
    /\ puts[1].row = 1

----------------------------------------------------------------------------
(* C5 *)

\* C5: in a dry run send_row_put is never called, and a file of n rows that
\* all build gets n preview blocks exactly, one per row, each with the URL
\* and the payload of its row.
C5_DryRunSendsNothing ==
    args.dry_run =>
        /\ puts = <<>>
        /\ pc # "send"
        /\ resp = NoResponse
        /\ (HasHeader /\ AllRowsBuild) =>
              /\ pc # "raised"
              /\ pc # "done" => CanStep
              /\ pc = "done" =>
                    /\ Len(out) = Len(rows)
                    /\ \A n \in 1..Len(out) :
                          /\ out[n].kind = "DRY RUN"
                          /\ out[n].row = n
                          /\ out[n].url = RowUrl(RecordOf(n))
                          /\ out[n].payload = BuiltOf(n).v

\* a dry run of two rows, over
C5_Witness ==
    /\ args.dry_run
    /\ pc = "done"
    /\ Len(rows) = 2
    /\ Len(out) = 2
    /\ out[2].kind = "DRY RUN"

----------------------------------------------------------------------------
(* C6 *)

\* the outcome printed for the n-th PUT is the one its answer calls for
OutcomeMatches(n) ==
    LET p == puts[n]
        ok == ~p.raised /\ 200 <= p.resp.status_code /\ p.resp.status_code < 300
    IN  /\ out[n].kind \in {"OK", "FAIL", "ERROR"}
        /\ out[n].kind = "OK" <=> ok
        /\ out[n].kind = "FAIL" <=> (~p.raised /\ ~ok)
        /\ out[n].kind = "ERROR" <=> p.raised
        /\ out[n].kind = "FAIL" =>
              /\ Len(out[n].text) <= 500
              /\ Len(out[n].text) = 500 \/ Len(out[n].text) = Len(p.resp.text)
              /\ out[n].text = SubSeq(p.resp.text, 1, Len(out[n].text))

\* C6 as stated: once the run is over, every row of the file has one outcome
\* exactly.
C6_OneOutcomePerRowOfFile ==
    (HasHeader /\ pc \in {"done", "raised"}) =>
        \A n \in 1..Len(rows) :
            Cardinality({m \in 1..Len(out) : out[m].row = n}) = 1

\* C6, amended: every row before the first row that cannot be built (every
\* row of the file when all build) gets one outcome exactly, in file order
\* and before the next row is started: a preview in a dry run, else the
\* success line iff the status s has 200 <= s < 300, the failure line (with
\* the first 500 characters of the body at most) iff a response came with
\* another status, the transport-error line iff the PUT raised; the first
\* row that cannot be built and the rows after it get none.
C6_OneOutcomePerBuiltRow ==
    HasHeader =>
        /\ Len(out) = RowsOver
        /\ \A n \in 1..Len(out) : out[n].row = n /\ n < FirstFailing
        /\ pc \in {"done", "raised"} => Len(out) = FirstFailing - 1
        /\ args.dry_run => \A n \in 1..Len(out) : out[n].kind = "DRY RUN"
        /\ ~args.dry_run =>
              /\ Len(puts) = Len(out)
              /\ \A n \in 1..Len(out) : puts[n].row = n /\ OutcomeMatches(n)

\* the failure line of row 1 carries 500 characters of a longer body, and
\* the run ended at row 2, which could not be built
C6_Witness ==
    /\ pc = "raised"
    /\ i = 2
    /\ Len(out) = 1
    /\ out[1].kind = "FAIL"
    /\ Len(out[1].text) = 500
    /\ Len(puts[1].resp.text) > 500

----------------------------------------------------------------------------
(* C7 *)

\* C7: with a non-empty override the payload's resourceId is the override,
\* whatever the Record's resourceId column holds, and the resolution of
\* resourceId does not fail; with no override and a resourceId column the
\* payload's resourceId is the column's value, trimmed (both variants).
C7_ResourceIdResolution ==
    pc = "built" =>
        /\ OverrideGiven =>
              /\ result # MissingResourceId
              /\ result.ok => PayloadResourceId(result.v) = args.resource_id
        /\ (args.resource_id = None /\ HasColumn(K_resourceId) /\ result.ok) =>
              /\ CellOf(1, K_resourceId).t = "str"
              /\ PayloadResourceId(result.v) = Str(Strip(CellOf(1, K_resourceId).s))

\* a payload built with the override over a row whose resourceId column is
\* not empty
C7_Witness ==
    /\ pc = "built"
    /\ result.ok
    /\ args.resource_id = Str(<<"r", "9">>)
    /\ HasColumn(K_resourceId)
    /\ CellOf(1, K_resourceId) = Str(<<" ", "r", "1", " ">>)
    /\ PayloadResourceId(result.v) = Str(<<"r", "9">>)

----------------------------------------------------------------------------
(* C8 *)

\* s without its last character when that is a slash
TrimOneSlash(s) == IF EndsWith(s, "/") THEN SubSeq(s, 1, Len(s) - 1) ELSE s

\* s without the slashes it ends with
TrimAllSlashes(s) ==
    SubSeq(s, 1, CHOOSE k \in 0..Len(s) :
                    /\ k = 0 \/ s[k] # "/"
                    /\ \A j \in (k + 1)..Len(s) : s[j] = "/")

\* the text of line n's cell in the id-column, as read: None for a line too
\* short to have it
IdText(n) ==
    LET k == CHOOSE k \in 1..Len(fieldnames) : fieldnames[k] = args.id_column.s IN
    IF k <= Len(rows[n]) THEN rows[n][k] ELSE <<"N", "o", "n", "e">>

\* every URL of a PUT or of a printed line is the base, trimmed of one slash
\* or of all, then "/" and the row's id: the base itself without id-column
UrlsAre(all) ==
    LET base == IF all THEN TrimAllSlashes(args.api_url)
                       ELSE TrimOneSlash(args.api_url)
        expected(n) == IF args.id_column # None
                       THEN base \o <<"/">> \o IdText(n)
                       ELSE args.api_url
    IN  /\ \A n \in 1..Len(puts) : puts[n].url = expected(puts[n].row)
        /\ \A n \in 1..Len(out) :
              out[n].kind # "ERROR" => out[n].url = expected(out[n].row)
        /\ pc = "send" => url = expected(i)

\* C8 as stated: with an id-column the URL is the base less one trailing
\* slash, "/" and the row's value of the id-column; without, the base.
C8_UrlTrimsOneSlash == UrlsAre(FALSE)

\* C8, amended: with an id-column the URL is the base less all its trailing
\* slashes, "/" and the row's value of the id-column as read from the file
\* (None for a row too short to have it); without, the base unchanged.
C8_UrlTrimsAllSlashes == UrlsAre(TRUE)

\* a PUT made with an id-column and a base that ends with two slashes
C8_Witness ==
    /\ args.id_column # None
    /\ args.api_url = <<"h", "/", "/">>
    /\ Len(puts) >= 1
    /\ puts[1].url = <<"h", "/", " ", "r", "1", " ">>

----------------------------------------------------------------------------
(* C9 *)

\* the cleaned cell of the one row, in the second column
Cell2 == Strip(rows[1][2])

\* the parts of s between commas, trimmed, the empty ones left out
TrimmedParts(s) ==
    LET parts == Split(s, ",")
        kept == SelectSeq([n \in 1..Len(parts) |-> Strip(parts[n])],
                          LAMBDA p : p # <<>>)
    IN  [n \in 1..Len(kept) |-> Str(kept[n])]

\* what the rules (a), (b), (c) make of a non-empty cell
MfaByRules(s) ==
    LET j == JsonLoads(s) IN
    IF j.ok /\ j.v.t = "list"
    THEN [n \in 1..Len(j.v.l) |-> Str(PyStr(j.v.l[n]))]
    ELSE IF Contains(s, ",") THEN TrimmedParts(s)
    ELSE <<Str(s)>>

\* C9: variant B: a non-empty mfaMethods value becomes an array of strings
\* by the first rule that applies: (a) a JSON array literal gives its
\* elements, each turned into a string; (b) else a value with a comma is
\* split at the commas, the parts trimmed, the empty ones dropped; (c) else
\* the value alone; a bracketed value that is no JSON array goes by (b), (c).
\* Whenever resources[0] has the key mfaMethods, it holds an array of
\* strings.
C9_MfaMethodsCoercion ==
    pc = "built" =>
        /\ result.ok
        /\ Cell2 # <<>> =>
              /\ HasKey(Resource0(result.v).l, K_mfaMethods)
              /\ Get(Resource0(result.v).l, K_mfaMethods).l = MfaByRules(Cell2)
        /\ HasKey(Resource0(result.v).l, K_mfaMethods) =>
              LET m == Get(Resource0(result.v).l, K_mfaMethods) IN
              /\ m.t = "list"
              /\ \A n \in 1..Len(m.l) : m.l[n].t = "str"

\* the cell [","] is a JSON array of one string, not two parts
C9_Witness ==
    /\ pc = "built"
    /\ result.ok
    /\ Cell2 = <<"[", "\"", ",", "\"", "]">>
    /\ Get(Resource0(result.v).l, K_mfaMethods) = List(<<Str(<<",">>)>>)

----------------------------------------------------------------------------
(* C10 *)

SameButCase(s, w) ==
    /\ Len(s) = Len(w)
    /\ \A n \in 1..Len(s) : LowerChar(s[n]) = w[n]

InVocabulary(s, words) == \E w \in words : SameButCase(s, w)

TrueVocabulary == {<<"t", "r", "u", "e">>, <<"1">>, <<"y", "e", "s">>, <<"y">>, <<"t">>}

FalseVocabulary == {<<"f", "a", "l", "s", "e">>, <<"0">>, <<"n", "o">>, <<"n">>, <<"f">>}

\* C10: variant B: a non-empty mfaEnabled value, case ignored, gives true
\* when it is one of true, 1, yes, y, t, false when it is one of false, 0,
\* no, n, f, and otherwise the build raises an error naming the value.
\* Whenever resources[0] has the key mfaEnabled, it holds a boolean.
C10_MfaEnabledCoercion ==
    pc = "built" =>
        /\ (Cell2 # <<>> /\ InVocabulary(Cell2, TrueVocabulary)) =>
              /\ result.ok
              /\ Get(Resource0(result.v).l, K_mfaEnabled) = Bool(TRUE)
        /\ (Cell2 # <<>> /\ InVocabulary(Cell2, FalseVocabulary)) =>
              /\ result.ok
              /\ Get(Resource0(result.v).l, K_mfaEnabled) = Bool(FALSE)
        /\ (/\ Cell2 # <<>>
            /\ ~InVocabulary(Cell2, TrueVocabulary)
            /\ ~InVocabulary(Cell2, FalseVocabulary)) =>
              /\ ~result.ok
              /\ result.exc = "ValueError"
              /\ result.about = Str(Cell2)
        /\ (result.ok /\ HasKey(Resource0(result.v).l, K_mfaEnabled)) =>
              Get(Resource0(result.v).l, K_mfaEnabled).t = "bool"

\* the cell t gives true
C10_Witness ==
    /\ pc = "built"
    /\ result.ok
    /\ rows[1][2] = <<" ", "T">>
    /\ Get(Resource0(result.v).l, K_mfaEnabled) = Bool(TRUE)

====
